---- MODULE Spec2Model ----
(***************************************************************************)
(* Model of the Ansible module library/yum_repository_info.py: run_module  *)
(* (check mode, path validation, the line-by-line parse loop, the final    *)
(* exit) together with the string helpers of Python it relies on.  The     *)
(* stand-alone script yum_repository_info.py runs the very same loop over  *)
(* a fixed path.                                                           *)
(*                                                                         *)
(* Characters are one-character strings, a line is a sequence of           *)
(* characters, a dict is a function whose domain is its key set.  The file *)
(* is the environment: the number of its lines is fixed when it is read    *)
(* and the content of each line is drawn when the loop reaches it.         *)
(***************************************************************************)
EXTENDS Integers, Sequences, FiniteSets, TLC

\* Bounds of the model: longest line and largest number of lines of a file.
MaxLineLen == 2
MaxLines == 3

Whitespace == {" "}
Alphabet == {" ", "#", "[", "]", "=", "a"}

RECURSIVE SeqsUpTo(_)
SeqsUpTo(n) ==
  IF n = 0 THEN {<< >>}
  ELSE LET shorter == SeqsUpTo(n - 1)
       IN shorter \cup {Append(s, c) : s \in {t \in shorter : Len(t) = n - 1}, c \in Alphabet}

\* Every line a file of the model can hold (no line holds the terminator).
Lines == SeqsUpTo(MaxLineLen)

\* Python's None, as the value of current_repo before any header.
None == <<"None">>
NoExc == "none"
PathStates == {"missing", "file", "directory"}

VARIABLES check_mode, path_state, pc, result, stdout, test_dict,
          current_repo, nlines, idx, line, exc

vars == <<check_mode, path_state, pc, result, stdout, test_dict,
          current_repo, nlines, idx, line, exc>>

----------------------------------------------------------------------------
\* Python string helpers, computed as Python computes them.

RECURSIVE lstrip(_)
lstrip(s) ==
  IF s = << >> THEN << >>
  ELSE IF Head(s) \in Whitespace THEN lstrip(Tail(s)) ELSE s

RECURSIVE rstrip(_)
rstrip(s) ==
  IF s = << >> THEN << >>
  ELSE IF s[Len(s)] \in Whitespace THEN rstrip(SubSeq(s, 1, Len(s) - 1)) ELSE s

\* str.strip()
strip(s) == rstrip(lstrip(s))

\* str.startswith(c) for a one-character prefix
startswith(s, c) == Len(s) > 0 /\ s[1] = c

\* str.replace(c, '') for a one-character pattern
replace(s, c) == SelectSeq(s, LAMBDA x : x # c)

\* str.split(sep) for a one-character separator: splits at EVERY separator.
RECURSIVE split(_, _)
split(s, sep) ==
  LET hits == {i \in 1..Len(s) : s[i] = sep}
  IN IF hits = {} THEN <<s>>
     ELSE LET i == CHOOSE j \in hits : \A h \in hits : j <= h
          IN <<SubSeq(s, 1, i - 1)>> \o split(SubSeq(s, i + 1, Len(s)), sep)

\* dict() and d[k] = v
EmptyDict == << >>
DictSet(d, k, v) == [x \in (DOMAIN d) \cup {k} |-> IF x = k THEN v ELSE d[x]]

----------------------------------------------------------------------------
\* The Ansible side of run_module.

StrView(s) == [kind |-> "str", val |-> s]
DictView(d) == [kind |-> "dict", val |-> d]

\* result = dict(changed=False, failed=False, repo_view='[]')
InitialResult == [changed |-> FALSE, failed |-> FALSE, repo_view |-> StrView("[]")]

\* if module.check_mode:
InCheckMode_never == FALSE
InCheckMode == check_mode

\* validate_path: os.path.exists
validate_path(ps) == ps # "missing"

\* AnsibleModule.exit_json(**result): prints the result, exits 0
exit_json(res) == res

\* AnsibleModule.fail_json(msg=..., **result): forces failed, adds msg, exits 1
fail_json_keeps_flag(msg, res) ==
  [changed |-> res.changed, failed |-> res.failed, repo_view |-> res.repo_view, msg |-> msg]
fail_json(msg, res) ==
  [changed |-> res.changed, failed |-> TRUE, repo_view |-> res.repo_view, msg |-> msg]

\* the result as updated after the loop
FinalResult_unchanged(res, d) == [res EXCEPT !.failed = FALSE, !.repo_view = DictView(d)]
FinalResult(res, d) ==
  [res EXCEPT !.changed = TRUE, !.failed = FALSE, !.repo_view = DictView(d)]

----------------------------------------------------------------------------
\* The body of "for line in lines".

\* line.strip() != ''
NonBlank_nostrip(ln) == ln # << >>
NonBlank(ln) == strip(ln) # << >>

\* the section name of a header line
SectionName_first(ln) == replace(Tail(ln), "]")
SectionName(ln) == replace(replace(ln, "["), "]")

Outcome(d, cur, e) == [test_dict |-> d, current_repo |-> cur, exc |-> e]

LoopBody(d, cur, ln) ==
  IF ~NonBlank(ln) THEN Outcome(d, cur, NoExc)
  ELSE IF startswith(ln, "#") THEN Outcome(d, cur, NoExc)
  ELSE IF startswith(ln, "[")
    THEN Outcome(DictSet(d, SectionName(ln), EmptyDict), SectionName(ln), NoExc)
  ELSE LET parts == split(ln, "=")
       IN IF Len(parts) # 2 THEN Outcome(d, cur, "ValueError")
          ELSE IF cur \notin DOMAIN d THEN Outcome(d, cur, "KeyError")
          ELSE Outcome(DictSet(d, cur, DictSet(d[cur], strip(parts[1]), strip(parts[2]))),
                       cur, NoExc)

----------------------------------------------------------------------------
Init ==
  /\ check_mode \in BOOLEAN
  /\ path_state \in PathStates
  /\ pc = "start"
  /\ result = InitialResult
  /\ stdout = << >>
  /\ test_dict = EmptyDict
  /\ current_repo = None
  /\ nlines = 0
  /\ idx = 0
  /\ line = None
  /\ exc = NoExc

\* if module.check_mode: module.exit_json(**result)
CheckModeExit ==
  /\ pc = "start"
  /\ InCheckMode
  /\ stdout' = Append(stdout, exit_json(result))
  /\ pc' = "exited"
  /\ UNCHANGED <<check_mode, path_state, result, test_dict, current_repo, nlines, idx, line, exc>>

\* if validate_path(path) == False: module.fail_json(msg=..., **result)
PathFail ==
  /\ pc = "start"
  /\ ~InCheckMode
  /\ ~validate_path(path_state)
  /\ stdout' = Append(stdout, fail_json("The path does not exist", result))
  /\ pc' = "failed"
  /\ UNCHANGED <<check_mode, path_state, result, test_dict, current_repo, nlines, idx, line, exc>>

\* test_dict = dict(); lines = open(path).read().split('\n'); current_repo = None
OpenFile ==
  /\ pc = "start"
  /\ ~InCheckMode
  /\ validate_path(path_state)
  /\ path_state = "file"
  /\ test_dict' = EmptyDict
  /\ current_repo' = None
  /\ \E n \in 1..MaxLines : nlines' = n
  /\ pc' = "loop"
  /\ UNCHANGED <<check_mode, path_state, result, stdout, idx, line, exc>>

\* open() raises on a path that exists but is no readable file (or is gone)
OpenCrash ==
  /\ pc = "start"
  /\ ~InCheckMode
  /\ validate_path(path_state)
  /\ path_state # "file"
  /\ test_dict' = EmptyDict
  /\ exc' = "OSError"
  /\ pc' = "crashed"
  /\ UNCHANGED <<check_mode, path_state, result, stdout, current_repo, nlines, idx, line>>

\* one iteration of the loop over the next line of the file
LoopIteration ==
  /\ pc = "loop"
  /\ idx < nlines
  /\ \E ln \in Lines :
       LET out == LoopBody(test_dict, current_repo, ln)
       IN /\ line' = ln
          /\ idx' = idx + 1
          /\ test_dict' = out.test_dict
          /\ current_repo' = out.current_repo
          /\ exc' = out.exc
          /\ pc' = IF out.exc = NoExc THEN "loop" ELSE "crashed"
  /\ UNCHANGED <<check_mode, path_state, result, stdout, nlines>>

\* result[...] = ...; module.exit_json(**result)
Finish ==
  /\ pc = "loop"
  /\ idx = nlines
  /\ result' = FinalResult(result, test_dict)
  /\ stdout' = Append(stdout, exit_json(result'))
  /\ pc' = "exited"
  /\ UNCHANGED <<check_mode, path_state, test_dict, current_repo, nlines, idx, line, exc>>

Next ==
  \/ CheckModeExit
  \/ PathFail
  \/ OpenFile
  \/ OpenCrash
  \/ LoopIteration
  \/ Finish

Spec == Init /\ [][Next]_vars

----------------------------------------------------------------------------
\* Vocabulary of the specification, stated without the helpers above.

IsBlankLine(l) == \A i \in 1..Len(l) : l[i] \in Whitespace
IsCommentLine(l) == Len(l) > 0 /\ l[1] = "#"
IsHeaderLine(l) == Len(l) > 0 /\ l[1] = "["
IsSettingLine(l) == ~IsBlankLine(l) /\ ~IsCommentLine(l) /\ ~IsHeaderLine(l)

EqualsAt(l) == {i \in 1..Len(l) : l[i] = "="}
FirstEquals(l) == CHOOSE i \in EqualsAt(l) : \A j \in EqualsAt(l) : i <= j
KeyText(l) == SubSeq(l, 1, FirstEquals(l) - 1)
ValueText(l) == SubSeq(l, FirstEquals(l) + 1, Len(l))

Trimmed(s) ==
  LET solid == {i \in 1..Len(s) : s[i] \notin Whitespace}
  IN IF solid = {} THEN << >>
     ELSE SubSeq(s, CHOOSE i \in solid : \A j \in solid : i <= j,
                    CHOOSE i \in solid : \A j \in solid : i >= j)

BracketsRemoved(l) == SelectSeq(l, LAMBDA c : c \notin {"[", "]"})

\* the section S with the pair of line l stored in it
WithSetting(d, S, l) ==
  [s \in DOMAIN d |->
     IF s # S THEN d[s]
     ELSE [k \in (DOMAIN d[S]) \cup {Trimmed(KeyText(l))} |->
             IF k = Trimmed(KeyText(l)) THEN Trimmed(ValueText(l)) ELSE d[S][k]]]

\* the step that processes the next line of the file
LineStep == pc = "loop" /\ idx' = idx + 1

\* the module handed its caller a failed result with a message and no view
FailedResultReported ==
  /\ Len(stdout) = 1
  /\ stdout[1].failed
  /\ "msg" \in DOMAIN stdout[1]
  /\ stdout[1].repo_view.kind = "str"

\* the error kinds of the specification, as the exceptions of the code
MalformedLineError == "ValueError"
OrphanSettingError == "KeyError"

----------------------------------------------------------------------------
\* C1: a Setting line with two or more '=' that follows a section header is
\* parsed successfully and split at its first '=' only: the trimmed text
\* before it is the key, the trimmed text after it (later '=' included) is
\* the value stored under the current section.
C1_SplitAtFirstEquals ==
  (idx >= 1 /\ IsSettingLine(line) /\ Cardinality(EqualsAt(line)) >= 2 /\ current_repo # None)
    => /\ exc = NoExc
       /\ current_repo \in DOMAIN test_dict
       /\ Trimmed(KeyText(line)) \in DOMAIN test_dict[current_repo]
       /\ test_dict[current_repo][Trimmed(KeyText(line))] = Trimmed(ValueText(line))

\* C2: a header naming a section already present only makes it current; the
\* settings stored under it (and everything else in the mapping) survive.
C2_RepeatedHeaderKeepsSettings ==
  [][(LineStep /\ IsHeaderLine(line') /\ BracketsRemoved(line') \in DOMAIN test_dict)
       => (test_dict' = test_dict /\ current_repo' = BracketsRemoved(line'))]_vars

\* C3: a Setting line reached while no header has been seen stops the parse
\* with OrphanSettingError, the caller gets a failed result with a message
\* and no view, and nothing is ever stored under the unset section.
C3_OrphanSettingFails ==
  /\ None \notin DOMAIN test_dict
  /\ (idx >= 1 /\ IsSettingLine(line) /\ current_repo = None)
       => (exc = OrphanSettingError /\ FailedResultReported)

\* C4: a non-blank line that starts with neither '#' nor '[' and holds no '='
\* stops the parse with MalformedLineError, and the caller gets a failed
\* result with a message and no view.
C4_MalformedLineFails ==
  (idx >= 1 /\ IsSettingLine(line) /\ EqualsAt(line) = {})
    => (exc = MalformedLineError /\ FailedResultReported)

\* C5 (as stated): whenever the path does not exist the module reports a
\* failed result with a message and no view, never opens the file, parses
\* no line, and never takes the success exit.
C5_MissingPathAlwaysFails ==
  (path_state = "missing" /\ pc # "start")
    => (pc = "failed" /\ FailedResultReported /\ nlines = 0 /\ idx = 0)

\* C5 (amended): outside check mode, whenever the path does not exist the
\* module reports a failed result with a message and the placeholder view,
\* never opens the file, parses no line, and never takes the success exit.
C5_MissingPathFails ==
  (path_state = "missing" /\ ~check_mode /\ pc # "start")
    => /\ pc = "failed"
       /\ FailedResultReported
       /\ ~stdout[1].changed
       /\ nlines = 0 /\ idx = 0 /\ test_dict = EmptyDict /\ exc = NoExc

C5_Witness == path_state = "missing" /\ ~check_mode /\ pc = "failed" /\ Len(stdout) = 1

\* C6: in check mode the module exits at once with the untouched initial
\* result, whatever the path is; the path is not validated, the file is not
\* read and no line is ever parsed.
C6_CheckModeIsNoOp ==
  (check_mode /\ pc # "start")
    => /\ pc = "exited"
       /\ Len(stdout) = 1
       /\ ~stdout[1].changed /\ ~stdout[1].failed
       /\ stdout[1].repo_view.kind = "str" /\ stdout[1].repo_view.val = "[]"
       /\ "msg" \notin DOMAIN stdout[1]
       /\ nlines = 0 /\ idx = 0 /\ line = None
       /\ test_dict = EmptyDict /\ exc = NoExc

C6_Witness == check_mode /\ path_state = "missing" /\ pc = "exited" /\ Len(stdout) = 1

\* C7: a blank line, a whitespace-only line or a line whose first character
\* is '#' changes neither the current section nor the mapping, and raises
\* no error.
C7_IgnoredLinesChangeNothing ==
  [][(LineStep /\ (IsBlankLine(line') \/ IsCommentLine(line')))
       => /\ test_dict' = test_dict
          /\ current_repo' = current_repo
          /\ pc' = "loop" /\ exc' = NoExc]_vars

C7_Witness ==
  /\ pc = "loop" /\ idx = 3
  /\ line # << >> /\ (IsBlankLine(line) \/ IsCommentLine(line))
  /\ current_repo \in DOMAIN test_dict
  /\ test_dict[current_repo] # EmptyDict

\* C8: a Setting line 'key = value' processed while section S is current
\* stores exactly the trimmed key mapped to the trimmed value under S
\* (overwriting an earlier value), raises no error and leaves every other
\* key, every other section and the current section as they were.
C8_SettingStored ==
  [][(LineStep /\ IsSettingLine(line') /\ EqualsAt(line') # {} /\ current_repo \in DOMAIN test_dict)
       => /\ pc' = "loop"
          /\ current_repo' = current_repo
          /\ test_dict' = WithSetting(test_dict, current_repo, line')]_vars

\* C8 restricted to lines with exactly one '=': there the pair is stored as
\* the claim says, so C8 fails on lines with a further '=' only.
SettingStoredWhenOneEquals ==
  [][(LineStep /\ IsSettingLine(line') /\ Cardinality(EqualsAt(line')) = 1
        /\ current_repo \in DOMAIN test_dict)
       => /\ pc' = "loop"
          /\ current_repo' = current_repo
          /\ test_dict' = WithSetting(test_dict, current_repo, line')]_vars

\* C9: a line is a header exactly when its first character is '['; its name
\* is the line with every '[' and ']' removed and nothing trimmed, it is
\* accepted without a ']', and it becomes the current section, under which
\* the following Setting lines are stored until the next header.
C9_HeaderIffLeadingBracket ==
  [][LineStep =>
       IF IsHeaderLine(line')
         THEN /\ pc' = "loop"
              /\ current_repo' = BracketsRemoved(line')
              /\ current_repo' \in DOMAIN test_dict'
         ELSE /\ current_repo' = current_repo
              /\ DOMAIN test_dict' = DOMAIN test_dict
              /\ \A s \in DOMAIN test_dict : s # current_repo => test_dict'[s] = test_dict[s]]_vars

C9_Witness ==
  /\ pc = "loop" /\ idx >= 1
  /\ IsHeaderLine(line) /\ \A i \in 1..Len(line) : line[i] # "]"
  /\ Len(BracketsRemoved(line)) > 0
  /\ current_repo = BracketsRemoved(line)

====
